---- MODULE Spec2Model ----
(***************************************************************************)
(* Model of docs/doxygen/scripts/StyleGraphs.py: the rose_pine_ify pass    *)
(* over one parsed SVG document, and the batch driver that globs a         *)
(* directory and runs the pass on every matched file.                      *)
(*                                                                         *)
(* A document is the sequence of its elements in document order.  Each     *)
(* element is a record                                                     *)
(*    tag    : the element's name                                          *)
(*    parent : the index of its parent element, 0 for the document itself  *)
(*    attrs  : a function from the names of the attributes that are        *)
(*             present to their values (absent is not the same as empty)   *)
(*    string : what bs4 returns for element.string, NoString for None      *)
(* A file on disk is held in this parsed form: serialising with prettify   *)
(* and parsing again keeps elements, nesting and attributes, and only      *)
(* re-indents text, which no rule reads outside the substrings rule 13     *)
(* replaces.                                                               *)
(***************************************************************************)
EXTENDS Integers, Sequences, FiniteSets, TLC

VARIABLES
    dir,             \* names of the files in the root directory (sys.argv[1])
    disk,            \* contents of each file of dir
    svg_file_paths,  \* the list the driver builds from the wildcards
    idx,             \* position of the batch loop in svg_file_paths
    pc,              \* "glob", "for", "rules", "write", "exit", "raise"
    rule,            \* the rule rose_pine_ify is about to apply, 0 outside it
    soup,            \* the document rose_pine_ify holds in memory
    input            \* history: contents of each file before the run

vars == <<dir, disk, svg_file_paths, idx, pc, rule, soup, input>>

----------------------------------------------------------------------------
(* The palette *)

rose_pine ==
    ("base" :> "#191724") @@ ("surface" :> "#1f1d2e") @@
    ("overlay" :> "#26233a") @@ ("muted" :> "#6e6a86") @@
    ("subtle" :> "#908caa") @@ ("text" :> "#e0def4") @@
    ("love" :> "#eb6f92") @@ ("gold" :> "#f6c177") @@
    ("rose" :> "#ebbcba") @@ ("pine" :> "#31748f") @@
    ("foam" :> "#9ccfd8") @@ ("iris" :> "#c4a7e7") @@
    ("highlight low" :> "#21202e") @@ ("highlight med" :> "#403d52") @@
    ("highlight high" :> "#524f67")

----------------------------------------------------------------------------
(* Documents and the bs4 queries the pass uses *)

NoString == "<None>"
NoAttrs == [a \in {} |-> ""]
AnyTag == "<any>"

Attr(k, v) == k :> v

Element(tag, attrs, string) ==
    [tag |-> tag, parent |-> 0, attrs |-> attrs, string |-> string]

has_attr(e, k) == k \in DOMAIN e.attrs

\* element[k] = v
SetAttr(doc, i, k, v) ==
    [doc EXCEPT ![i].attrs = [a \in (DOMAIN @) \cup {k} |-> IF a = k THEN v ELSE @[a]]]

RECURSIVE Ancestors(_, _)
Ancestors(doc, i) ==
    IF i = 0 THEN {}
    ELSE {doc[i].parent} \cup Ancestors(doc, doc[i].parent)

\* The elements below element i; everything is below the document, 0.
Descendants(doc, i) == {j \in DOMAIN doc : i \in Ancestors(doc, j)}

\* bs4's match of one element against a name and attribute values.
Matches(e, name, want) ==
    /\ name = AnyTag \/ e.tag = name
    /\ \A k \in DOMAIN want : has_attr(e, k) /\ e.attrs[k] = want[k]

\* root.find_all(name, **want), as the set of the elements found.
find_all(doc, root, name, want) ==
    {i \in Descendants(doc, root) : Matches(doc[i], name, want)}

Min(S) == CHOOSE i \in S : \A j \in S : i <= j

\* root.find(name, **want): the first match in document order, 0 for None.
find(doc, root, name, want) ==
    LET found == find_all(doc, root, name, want)
    IN  IF found = {} THEN 0 ELSE Min(found)

\* str.replace(old, new): leftmost non-overlapping occurrences.
RECURSIVE replace(_, _, _)
replace(s, old, new) ==
    IF Len(s) < Len(old) THEN s
    ELSE IF SubSeq(s, 1, Len(old)) = old
         THEN new \o replace(SubSeq(s, Len(old) + 1, Len(s)), old, new)
         ELSE SubSeq(s, 1, 1) \o replace(SubSeq(s, 2, Len(s)), old, new)

----------------------------------------------------------------------------
(* The rules of rose_pine_ify.  Each takes the document and returns         *)
(* [doc, ok]: the document after the rule, and whether the rule ran to its  *)
(* end (ok) or raised (an item assignment or attribute access on None).     *)

Ok(doc) == [doc |-> doc, ok |-> TRUE]
Raised(doc) == [doc |-> doc, ok |-> FALSE]

\* for e in soup.find_all(name, **want): e[k] = new[k] for every k of new
Recolor(doc, name, want, new) ==
    LET found == find_all(doc, 0, name, want)
    IN  [i \in DOMAIN doc |->
            IF i \in found
            THEN [doc[i] EXCEPT !.attrs =
                    [a \in (DOMAIN @) \cup (DOMAIN new) |->
                        IF a \in DOMAIN new THEN new[a] ELSE @[a]]]
            ELSE doc[i]]

\* 1: background
Background(doc) ==
    Ok(Recolor(doc, "polygon",
               Attr("fill", "white") @@ Attr("stroke", "transparent"),
               Attr("fill", "none")))

\* A rule 2 that writes a colour name another rule matches on.
BaseClasses_Darkgreen(doc) ==
    Ok(Recolor(doc, "polygon",
               Attr("fill", "white") @@ Attr("stroke", "#666666"),
               Attr("fill", "darkgreen") @@ Attr("stroke", "none")))

\* 2: base classes
BaseClasses(doc) ==
    Ok(Recolor(doc, "polygon",
               Attr("fill", "white") @@ Attr("stroke", "#666666"),
               Attr("fill", rose_pine["gold"]) @@ Attr("stroke", "none")))

\* 3: undocumented classes
UndocumentedClasses(doc) ==
    Ok(Recolor(doc, "polygon",
               Attr("fill", "#e0e0e0") @@ Attr("stroke", "#999999"),
               Attr("fill", rose_pine["rose"]) @@ Attr("stroke", "none")))

\* 4: inherited classes
InheritedClasses(doc) ==
    Ok(Recolor(doc, "polygon",
               Attr("fill", "#999999") @@ Attr("stroke", "#666666"),
               Attr("fill", rose_pine["iris"]) @@ Attr("stroke", "none")))

\* A rule 5 that forgets the stroke.
TruncatedClasses_FillOnly(doc) ==
    Ok(Recolor(doc, "polygon",
               Attr("fill", "#fff0f0") @@ Attr("stroke", "red"),
               Attr("fill", rose_pine["muted"])))

\* 5: truncated classes
TruncatedClasses(doc) ==
    Ok(Recolor(doc, "polygon",
               Attr("fill", "#fff0f0") @@ Attr("stroke", "red"),
               Attr("fill", rose_pine["muted"]) @@ Attr("stroke", "none")))

\* 6: text near arrows
TextNearArrows(doc) ==
    Ok(Recolor(doc, "text", Attr("fill", "grey"),
               Attr("fill", rose_pine["text"])))

\* A rule 7 that does not look whether the element has a fill.
TextInClasses_Unchecked(doc) ==
    Ok(Recolor(doc, "text", NoAttrs, Attr("fill", rose_pine["overlay"])))

\* 7: text in classes
TextInClasses(doc) ==
    Ok([i \in DOMAIN doc |->
          IF i \in find_all(doc, 0, "text", NoAttrs) /\ ~has_attr(doc[i], "fill")
          THEN SetAttr(doc, i, "fill", rose_pine["overlay"])[i]
          ELSE doc[i]])

\* Arrow rules with one loop, over the elements that have the colour as
\* fill and as stroke.
Arrows_Together(doc, from, to) ==
    Ok(Recolor(doc, AnyTag, Attr("fill", from) @@ Attr("stroke", from),
               Attr("fill", to) @@ Attr("stroke", to)))

\* 8..12: the fill loop, then the stroke loop, of one arrow colour
Arrows(doc, from, to) ==
    LET filled == Recolor(doc, AnyTag, Attr("fill", from), Attr("fill", to))
    IN  Ok(Recolor(filled, AnyTag, Attr("stroke", from), Attr("stroke", to)))

PublicInheritance(doc) == Arrows(doc, "#63b8ff", rose_pine["subtle"])
Template(doc) == Arrows(doc, "orange", rose_pine["text"])
UsedClass(doc) == Arrows(doc, "#9a32cd", rose_pine["iris"])
PrivateInheritance(doc) == Arrows(doc, "#8b1a1a", rose_pine["love"])
ProtectedInheritance(doc) == Arrows(doc, "darkgreen", rose_pine["gold"])

\* 13: inline style sheets
StyleBody(doc, i) ==
    IF doc[i].string = NoString THEN Raised(doc)
    ELSE Ok([doc EXCEPT ![i].string =
                replace(replace(@, "stroke: red", "stroke: " \o rose_pine["text"]),
                        "fill: red", "fill: " \o rose_pine["text"])])

\* The loops whose body looks into the document again run element by
\* element, in document order, over the list find_all returned up front,
\* and stop at the first element whose body raises.
RECURSIVE StyleLoop(_, _)
StyleLoop(r, todo) ==
    IF todo = {} \/ ~r.ok THEN r
    ELSE StyleLoop(StyleBody(r.doc, Min(todo)), todo \ {Min(todo)})

StyleSheets(doc) ==
    StyleLoop(Ok(doc), find_all(doc, 0, "style", Attr("type", "text/css")))

\* A rule 14 that takes the first rect below the group, whatever its fill.
NavigatorBody_AnyRect(doc, i) ==
    LET painted == SetAttr(doc, i, "fill", rose_pine["pine"])
        child_element == find(painted, i, "rect", NoAttrs)
    IN  IF child_element = 0 THEN Raised(painted)
        ELSE Ok(SetAttr(SetAttr(SetAttr(painted,
                    child_element, "fill", rose_pine["overlay"]),
                    child_element, "fill-opacity", "1.0"),
                    child_element, "stroke", "none"))

\* A rule 14 that looks for the rect in the whole document (soup.find)
\* instead of below the group (element.find).
NavigatorBody_FromSoup(doc, i) ==
    LET painted == SetAttr(doc, i, "fill", rose_pine["pine"])
        child_element == find(painted, 0, "rect", Attr("fill", "#f2f5e9"))
    IN  IF child_element = 0 THEN Raised(painted)
        ELSE Ok(SetAttr(SetAttr(SetAttr(painted,
                    child_element, "fill", rose_pine["overlay"]),
                    child_element, "fill-opacity", "1.0"),
                    child_element, "stroke", "none"))

\* 14: the navigator group
NavigatorBody(doc, i) ==
    LET painted == SetAttr(doc, i, "fill", rose_pine["pine"])
        child_element == find(painted, i, "rect", Attr("fill", "#f2f5e9"))
    IN  IF child_element = 0 THEN Raised(painted)
        ELSE Ok(SetAttr(SetAttr(SetAttr(painted,
                    child_element, "fill", rose_pine["overlay"]),
                    child_element, "fill-opacity", "1.0"),
                    child_element, "stroke", "none"))

RECURSIVE NavigatorLoop(_, _)
NavigatorLoop(r, todo) ==
    IF todo = {} \/ ~r.ok THEN r
    ELSE NavigatorLoop(NavigatorBody(r.doc, Min(todo)), todo \ {Min(todo)})

Navigator(doc) ==
    NavigatorLoop(Ok(doc), find_all(doc, 0, "g", Attr("id", "navigator")))

\* 15: the use elements of the navigator
UseBody(doc, i) ==
    LET painted == SetAttr(doc, i, "fill", rose_pine["pine"])
        set == find(painted, i, "set", NoAttrs)
    IN  IF set = 0 THEN Raised(painted)
        ELSE Ok(SetAttr(painted, set, "to", rose_pine["iris"]))

RECURSIVE UseLoop(_, _)
UseLoop(r, todo) ==
    IF todo = {} \/ ~r.ok THEN r
    ELSE UseLoop(UseBody(r.doc, Min(todo)), todo \ {Min(todo)})

UseElements(doc) ==
    UseLoop(Ok(doc), find_all(doc, 0, "use", Attr("fill", "#404040")))

\* A rule 16 that looks for the rect the way rule 14 does, by its fill.
ArrowOut_RectByFill(doc) ==
    LET g == find(doc, 0, "g", Attr("id", "arrow_out"))
        rect == find(doc, g, "rect", Attr("fill", "#f2f5e9"))
        boxed == SetAttr(SetAttr(doc, rect, "fill", rose_pine["pine"]),
                         rect, "stroke", "none")
        path == find(boxed, g, "path", NoAttrs)
    IN  IF g = 0 THEN Ok(doc)
        ELSE IF rect = 0 THEN Raised(doc)
        ELSE IF path = 0 THEN Raised(boxed)
        ELSE Ok(SetAttr(boxed, path, "style", "fill:" \o rose_pine["text"]))

\* A rule 16 without the test for None.
ArrowOut_Unguarded(doc) ==
    LET g == find(doc, 0, "g", Attr("id", "arrow_out"))
        rect == find(doc, g, "rect", NoAttrs)
        boxed == SetAttr(SetAttr(doc, rect, "fill", rose_pine["pine"]),
                         rect, "stroke", "none")
        path == find(boxed, g, "path", NoAttrs)
    IN  IF g = 0 \/ rect = 0 THEN Raised(doc)
        ELSE IF path = 0 THEN Raised(boxed)
        ELSE Ok(SetAttr(boxed, path, "style", "fill:" \o rose_pine["text"]))

\* 16: the arrow_out group, which may be absent
ArrowOut(doc) ==
    LET g == find(doc, 0, "g", Attr("id", "arrow_out"))
        rect == find(doc, g, "rect", NoAttrs)
        boxed == SetAttr(SetAttr(doc, rect, "fill", rose_pine["pine"]),
                         rect, "stroke", "none")
        path == find(boxed, g, "path", NoAttrs)
    IN  IF g = 0 THEN Ok(doc)
        ELSE IF rect = 0 THEN Raised(doc)
        ELSE IF path = 0 THEN Raised(boxed)
        ELSE Ok(SetAttr(boxed, path, "style", "fill:" \o rose_pine["text"]))

NumRules == 16

\* The attribute values the selectors of the rules match on.
MatchKeys ==
    {"white", "transparent", "#666666", "#e0e0e0", "#999999", "#fff0f0",
     "red", "grey", "#63b8ff", "orange", "#9a32cd", "#8b1a1a", "darkgreen",
     "text/css", "navigator", "#f2f5e9", "#404040", "arrow_out"}

\* The attribute values the rules write.
WrittenValues ==
    {"none", rose_pine["gold"], rose_pine["rose"], rose_pine["iris"],
     rose_pine["muted"], rose_pine["text"], rose_pine["overlay"],
     rose_pine["subtle"], rose_pine["love"], rose_pine["pine"], "1.0",
     "fill:" \o rose_pine["text"]}

ApplyRule(k, doc) ==
    CASE k = 1 -> Background(doc)
      [] k = 2 -> BaseClasses(doc)
      [] k = 3 -> UndocumentedClasses(doc)
      [] k = 4 -> InheritedClasses(doc)
      [] k = 5 -> TruncatedClasses(doc)
      [] k = 6 -> TextNearArrows(doc)
      [] k = 7 -> TextInClasses(doc)
      [] k = 8 -> PublicInheritance(doc)
      [] k = 9 -> Template(doc)
      [] k = 10 -> UsedClass(doc)
      [] k = 11 -> PrivateInheritance(doc)
      [] k = 12 -> ProtectedInheritance(doc)
      [] k = 13 -> StyleSheets(doc)
      [] k = 14 -> Navigator(doc)
      [] k = 15 -> UseElements(doc)
      [] k = 16 -> ArrowOut(doc)

\* The whole pass on a document, rule after rule, stopping at a raise.
RECURSIVE RunFrom(_, _)
RunFrom(k, r) ==
    IF k > NumRules \/ ~r.ok THEN r ELSE RunFrom(k + 1, ApplyRule(k, r.doc))

recolored(doc) == RunFrom(1, Ok(doc))

----------------------------------------------------------------------------
(* The batch driver *)

\* Wildcards with one more, for every graph, that overlaps two of them.
svg_file_wildcards_Overlapping ==
    {"*__dep__incl.svg", "*__inherit__graph.svg", "*__coll__graph.svg",
     "*_dep.svg", "graph_legend.svg", "*__graph.svg"}

svg_file_wildcards ==
    {"*__dep__incl.svg", "*__inherit__graph.svg", "*__coll__graph.svg",
     "*_dep.svg", "graph_legend.svg"}

EndsWith(s, t) ==
    Len(s) >= Len(t) /\ SubSeq(s, Len(s) - Len(t) + 1, Len(s)) = t

StartsWith(s, t) == Len(s) >= Len(t) /\ SubSeq(s, 1, Len(t)) = t

\* glob's match of a file name against one of the wildcards: a literal
\* pattern names the file itself; a leading * matches any beginning, but
\* never a name that starts with a dot.
fnmatch(name, wildcard) ==
    IF StartsWith(wildcard, "*")
    THEN /\ EndsWith(name, SubSeq(wildcard, 2, Len(wildcard)))
         /\ ~StartsWith(name, ".")
    ELSE name = wildcard

\* glob.glob(path.join(sys.argv[1], wildcard)), as a set
glob(names, wildcard) == {n \in names : fnmatch(n, wildcard)}

\* The orders in which a set can be listed.
RECURSIVE Orderings(_)
Orderings(S) ==
    IF S = {} THEN {<<>>}
    ELSE UNION {{<<x>> \o rest : rest \in Orderings(S \ {x})} : x \in S}

\* What the loop over the wildcards can leave in svg_file_paths: the
\* wildcards are a set, iterated in no fixed order, and glob lists the
\* matches of each in no fixed order; the lists are concatenated.  A
\* wildcard that matches nothing adds nothing wherever it comes.
RECURSIVE Globbed(_, _)
Globbed(names, wildcards) ==
    LET live == {w \in wildcards : glob(names, w) # {}}
    IN  IF live = {} THEN {<<>>}
        ELSE UNION {{found \o rest :
                        found \in Orderings(glob(names, w)),
                        rest \in Globbed(names, live \ {w})} : w \in live}

----------------------------------------------------------------------------
(* Actions *)

\* for wildcard in svg_file_wildcards: svg_file_paths += glob.glob(...)
Glob ==
    /\ pc = "glob"
    /\ svg_file_paths' \in Globbed(dir, svg_file_wildcards)
    /\ idx' = 0
    /\ pc' = "for"
    /\ UNCHANGED <<dir, disk, rule, soup, input>>

\* The next file of the batch: rose_pine_ify opens and parses it.
Open ==
    /\ pc = "for"
    /\ idx < Len(svg_file_paths)
    /\ idx' = idx + 1
    /\ soup' = disk[svg_file_paths[idx + 1]]
    /\ rule' = 1
    /\ pc' = "rules"
    /\ UNCHANGED <<dir, disk, svg_file_paths, input>>

\* A pass that saves the document as it is when a rule raises.
Step_SaveOnRaise(k, r) ==
    /\ pc = "rules"
    /\ rule = k
    /\ soup' = r.doc
    /\ pc' = IF ~r.ok THEN "raise" ELSE IF k = NumRules THEN "write" ELSE "rules"
    /\ rule' = IF r.ok /\ k < NumRules THEN k + 1 ELSE 0
    /\ disk' = IF r.ok THEN disk ELSE [disk EXCEPT ![svg_file_paths[idx]] = r.doc]
    /\ UNCHANGED <<dir, svg_file_paths, idx, input>>

\* One rule of the pass on the document in memory.  A rule that raises
\* ends the process: nothing catches the exception.
Step(k, r) ==
    /\ pc = "rules"
    /\ rule = k
    /\ soup' = r.doc
    /\ pc' = IF ~r.ok THEN "raise" ELSE IF k = NumRules THEN "write" ELSE "rules"
    /\ rule' = IF r.ok /\ k < NumRules THEN k + 1 ELSE 0
    /\ UNCHANGED <<dir, disk, svg_file_paths, idx, input>>

Rule1 == Step(1, Background(soup))
Rule2 == Step(2, BaseClasses(soup))
Rule3 == Step(3, UndocumentedClasses(soup))
Rule4 == Step(4, InheritedClasses(soup))
Rule5 == Step(5, TruncatedClasses(soup))
Rule6 == Step(6, TextNearArrows(soup))
Rule7 == Step(7, TextInClasses(soup))
Rule8 == Step(8, PublicInheritance(soup))
Rule9 == Step(9, Template(soup))
Rule10 == Step(10, UsedClass(soup))
Rule11 == Step(11, PrivateInheritance(soup))
Rule12 == Step(12, ProtectedInheritance(soup))
Rule13 == Step(13, StyleSheets(soup))
Rule14 == Step(14, Navigator(soup))
Rule15 == Step(15, UseElements(soup))
Rule16 == Step(16, ArrowOut(soup))

\* svg_data = soup.prettify("utf-8"); open(svg_file_path, "wb").write(svg_data)
Write ==
    /\ pc = "write"
    /\ disk' = [disk EXCEPT ![svg_file_paths[idx]] = soup]
    /\ pc' = "for"
    /\ UNCHANGED <<dir, svg_file_paths, idx, rule, soup, input>>

\* The batch loop has gone through the whole list.
Exit ==
    /\ pc = "for"
    /\ idx = Len(svg_file_paths)
    /\ pc' = "exit"
    /\ UNCHANGED <<dir, disk, svg_file_paths, idx, rule, soup, input>>

Next ==
    \/ Glob
    \/ Open
    \/ Rule1 \/ Rule2 \/ Rule3 \/ Rule4 \/ Rule5 \/ Rule6 \/ Rule7 \/ Rule8
    \/ Rule9 \/ Rule10 \/ Rule11 \/ Rule12 \/ Rule13 \/ Rule14 \/ Rule15
    \/ Rule16
    \/ Write
    \/ Exit

----------------------------------------------------------------------------
(* Documents the runs start from.  An SVG group or use element holds other  *)
(* elements; the shapes, text, style and set elements are leaves.           *)

Container(e) == e.tag \in {"g", "use"}

\* Elements come in document order: each hangs from the document or from
\* an element still open where it starts, which is the element just before
\* it or one of that element's ancestors.
Nested(d) ==
    \A i \in DOMAIN d :
        /\ d[i].parent < i
        /\ d[i].parent # 0 => d[i].parent \in {i - 1} \cup Ancestors(d, i - 1)

\* The nestings of n elements, each as the parent of every element.
Nestings(n) ==
    {ps \in [1..n -> 0..(n - 1)] : Nested([i \in 1..n |-> [parent |-> ps[i]]])}

\* The document of elements ks nested as ps says.
Tree(ks, ps) == [i \in DOMAIN ks |-> [ks[i] EXCEPT !.parent = ps[i]]]

WellFormed(d) ==
    /\ Nested(d)
    /\ \A i \in DOMAIN d : d[i].parent # 0 => Container(d[d[i].parent])

Absent == "<absent>"
Opt(k, v) == IF v = Absent THEN NoAttrs ELSE Attr(k, v)
Shape(tag, fill, stroke) ==
    Element(tag, Opt("fill", fill) @@ Opt("stroke", stroke)
                 @@ Attr("points", "0,0 8,0 8,8"), NoString)

ArrowColours == {"#63b8ff", "orange", "#9a32cd", "#8b1a1a", "darkgreen"}

\* Class boxes, labels and arrows: what rules 1 to 12 look at.
PaintKinds ==
    {Shape("polygon", f, s) :
        f \in {"white", "#e0e0e0", "#999999", "#fff0f0", "black"},
        s \in {"transparent", "#666666", "#999999", "red", "black"}}
    \cup {Shape("text", f, s) :
        f \in {Absent, "grey", "black"}, s \in {Absent, "orange"}}
    \cup {Shape("path", f, s) :
        f \in {"none"} \cup ArrowColours, s \in {"black"} \cup ArrowColours}
    \cup {Shape("polygon", c, c) : c \in ArrowColours}

\* The zoom and pan controls of an interactive graph: rules 14 and 16.
NavigatorKinds ==
    {Element("g", Attr("id", "navigator"), NoString),
     Element("g", Attr("id", "arrow_out"), NoString),
     Element("rect", Attr("fill", "#f2f5e9") @@ Attr("fill-opacity", "0.5")
                     @@ Attr("stroke", "#606060"), NoString),
     Element("rect", Attr("fill", "white"), NoString),
     Element("path", Attr("style", "fill:#404040;"), NoString)}

\* The same controls carrying arrow colours, and the use elements of
\* rule 15 with the set element below them.
ControlKinds ==
    {Element("g", Attr("id", "navigator") @@ Attr("fill", "#63b8ff"), NoString),
     Element("g", Attr("id", "arrow_out"), NoString),
     Element("use", Attr("fill", "#404040") @@ Attr("stroke", "orange"), NoString),
     Element("rect", Attr("fill", "#f2f5e9") @@ Attr("stroke", "darkgreen"), NoString),
     Element("rect", Attr("fill", "#8b1a1a") @@ Attr("stroke", "#9a32cd"), NoString),
     Element("set", Attr("to", "#808080"), NoString),
     Element("path", Attr("stroke", "#63b8ff"), NoString)}

\* Style sheets: every text of up to MaxCss of these pieces.
CssPieces == {"stroke: ", "fill: ", "red", ";"}

RECURSIVE CssTexts(_)
CssTexts(n) ==
    IF n = 0 THEN {""}
    ELSE {t \o p : t \in CssTexts(n - 1), p \in CssPieces}

MaxPaint == 1
MaxNodes == 4
MaxControls == 3
MaxCss == 3

\* One style sheet, alone or beside a style element that is empty (its
\* string is None) or that is not of type text/css.
StyleDocs ==
    LET sheets == {Element("style", Attr("type", "text/css"), t) :
                      t \in UNION {CssTexts(n) : n \in 1..MaxCss}}
        others == {Element("style", Attr("type", "text/css"), NoString),
                   Element("style", NoAttrs, "fill: red;")}
    IN  {<<s>> : s \in sheets \cup others}
        \cup {<<s, e>> : s \in sheets, e \in others}
        \cup {<<e, s>> : e \in others, s \in sheets}

Families ==
    {[kinds |-> PaintKinds, max |-> MaxPaint],
     [kinds |-> NavigatorKinds, max |-> MaxNodes],
     [kinds |-> ControlKinds, max |-> MaxControls]}

\* The legend of a documentation tree, the one file of the directory.
Legend == "graph_legend.svg"

\* The run starts on a directory that holds the legend alone, which is a
\* style document or a document of one of the families.
InitLegend(styles, families) ==
    /\ dir = {Legend}
    /\ \/ \E d \in styles : disk = [n \in dir |-> d]
       \/ \E f \in families : \E m \in 1..f.max :
             \E ps \in Nestings(m) : \E ks \in [1..m -> f.kinds] :
                /\ WellFormed(Tree(ks, ps))
                /\ disk = [n \in dir |-> Tree(ks, ps)]
    /\ input = disk
    /\ svg_file_paths = <<>>
    /\ idx = 0
    /\ pc = "glob"
    /\ rule = 0
    /\ soup = <<>>

Init == InitLegend(StyleDocs, Families)

Spec == Init /\ [][Next]_vars

\* A directory of up to MaxFiles files for the batch driver: graphs of each
\* kind, the legend, and names the wildcards must not pick up.
NamePool ==
    {"a__dep__incl.svg", "a__inherit__graph.svg", "a__coll__graph.svg",
     "a_dep.svg", "graph_legend.svg", "_dep.svg", "a__dep__incl_dep.svg",
     "a__dep__incl_org.svg", "a_graph_legend.svg", ".a_dep.svg",
     "a__coll__graph.svg.bak", "graph.svg"}

MaxFiles == 2

\* What a file of the batch may hold: a class box, the navigator with its
\* rect, and a navigator without the rect rule 14 looks for.
BatchDocs ==
    {<<Shape("polygon", "white", "#666666")>>,
     Tree(<<Element("g", Attr("id", "navigator"), NoString),
            Element("rect", Attr("fill", "#f2f5e9"), NoString)>>, <<0, 1>>),
     <<Element("g", Attr("id", "navigator"), NoString)>>}

InitBatch ==
    /\ dir \in {names \in SUBSET NamePool :
                   Cardinality(names) \in 1..MaxFiles}
    /\ disk \in [dir -> BatchDocs]
    /\ input = disk
    /\ svg_file_paths = <<>>
    /\ idx = 0
    /\ pc = "glob"
    /\ rule = 0
    /\ soup = <<>>

SpecBatch == InitBatch /\ [][Next]_vars

\* Documents on which to take the rules in another order: the painted
\* shapes, the controls of the navigator with a stroke rule 12 matches, the
\* use elements, and two style elements.
OrderKinds ==
    {Element("g", Attr("id", "navigator"), NoString),
     Element("g", Attr("id", "arrow_out"), NoString),
     Element("rect", Attr("fill", "#f2f5e9") @@ Attr("fill-opacity", "0.5")
                     @@ Attr("stroke", "darkgreen"), NoString),
     Element("path", Attr("style", "fill:#404040;"), NoString)}

UseKinds ==
    {Element("use", Attr("fill", "#404040") @@ Attr("stroke", "orange"), NoString),
     Element("g", Attr("id", "navigator") @@ Attr("fill", "#63b8ff"), NoString),
     Element("set", Attr("to", "#808080"), NoString),
     Element("rect", Attr("fill", "#f2f5e9"), NoString)}

OrderFamilies ==
    {[kinds |-> PaintKinds, max |-> MaxPaint],
     [kinds |-> OrderKinds, max |-> MaxNodes],
     [kinds |-> UseKinds, max |-> MaxControls]}

OrderStyleDocs ==
    {<<Element("style", Attr("type", "text/css"), "stroke: red;fill: red;")>>,
     <<Element("style", Attr("type", "text/css"), NoString)>>}

InitOrder == InitLegend(OrderStyleDocs, OrderFamilies)

SpecOrder == InitOrder /\ [][Next]_vars

----------------------------------------------------------------------------
(* What the properties below speak of *)

\* The k-th file of the list has gone through the pass and been written.
Done(k) == k < idx \/ (k = idx /\ pc \in {"for", "exit"})

Finished == {svg_file_paths[k] : k \in {j \in DOMAIN svg_file_paths : Done(j)}}

\* rose_pine_ify holds a document in memory; Current is the file it is of.
InPass == pc \in {"rules", "write"}
Current == svg_file_paths[idx]

\* The pass is past rule k.
Past(k) == pc = "write" \/ (pc = "rules" /\ rule > k)

Value(e, k) == IF has_attr(e, k) THEN e.attrs[k] ELSE Absent

Painted(e, tag, fill, stroke) ==
    e.tag = tag /\ Value(e, "fill") = fill /\ Value(e, "stroke") = stroke

----------------------------------------------------------------------------
(* C1 *)

PolygonRules ==
    {[rule |-> 1, fill |-> "white", stroke |-> "transparent",
      newfill |-> "none", newstroke |-> "transparent"],
     [rule |-> 2, fill |-> "white", stroke |-> "#666666",
      newfill |-> rose_pine["gold"], newstroke |-> "none"],
     [rule |-> 3, fill |-> "#e0e0e0", stroke |-> "#999999",
      newfill |-> rose_pine["rose"], newstroke |-> "none"],
     [rule |-> 4, fill |-> "#999999", stroke |-> "#666666",
      newfill |-> rose_pine["iris"], newstroke |-> "none"],
     [rule |-> 5, fill |-> "#fff0f0", stroke |-> "red",
      newfill |-> rose_pine["muted"], newstroke |-> "none"]}

\* C1: a polygon whose (fill, stroke) in the input is one of the five source
\* pairs has the mapped pair in the written file, (white, transparent)
\* keeping its stroke; and from the rule that maps it on, every later point
\* of the pass still finds the mapped pair on it.
C1_PolygonsMapped ==
    /\ \A f \in Finished : \A i \in DOMAIN input[f] : \A p \in PolygonRules :
          Painted(input[f][i], "polygon", p.fill, p.stroke)
             => Painted(disk[f][i], "polygon", p.newfill, p.newstroke)
    /\ InPass =>
          \A i \in DOMAIN soup : \A p \in PolygonRules :
             Painted(input[Current][i], "polygon", p.fill, p.stroke) /\ Past(p.rule)
                => Painted(soup[i], "polygon", p.newfill, p.newstroke)

C1_Witness ==
    \E f \in Finished : \E i \in DOMAIN input[f] :
        /\ Painted(input[f][i], "polygon", "#fff0f0", "red")
        /\ Painted(disk[f][i], "polygon", "#6e6a86", "none")

----------------------------------------------------------------------------
(* C2 *)

\* C2: a text element without a fill in the input has the overlay colour as
\* its fill in the written file, one with fill grey has the text colour,
\* every text element of the written file has a fill, and no rule after
\* rule 7 takes these values away again.
C2_TextFilled ==
    /\ \A f \in Finished : \A i \in DOMAIN input[f] :
          input[f][i].tag = "text" =>
             /\ ~has_attr(input[f][i], "fill")
                   => Value(disk[f][i], "fill") = "#26233a"
             /\ Value(input[f][i], "fill") = "grey"
                   => Value(disk[f][i], "fill") = "#e0def4"
             /\ has_attr(disk[f][i], "fill")
    /\ InPass /\ Past(7) =>
          \A i \in DOMAIN soup :
             soup[i].tag = "text" =>
                /\ ~has_attr(input[Current][i], "fill")
                      => Value(soup[i], "fill") = "#26233a"
                /\ Value(input[Current][i], "fill") = "grey"
                      => Value(soup[i], "fill") = "#e0def4"
                /\ has_attr(soup[i], "fill")

C2_Witness ==
    \E f \in Finished : \E i \in DOMAIN input[f] :
        /\ input[f][i].tag = "text"
        /\ ~has_attr(input[f][i], "fill")
        /\ has_attr(input[f][i], "stroke")
        /\ Value(disk[f][i], "fill") = "#26233a"

----------------------------------------------------------------------------
(* C3 *)

HasNavigator(doc) == find(doc, 0, "g", Attr("id", "navigator")) # 0

----------------------------------------------------------------------------
(* C4 *)

NavigatorGroups(doc) == find_all(doc, 0, "g", Attr("id", "navigator"))

\* The rect the claim speaks of: the first rect with fill #f2f5e9 below
\* navigator group g, 0 when there is none.
NavigatorRect(doc, g) == find(doc, g, "rect", Attr("fill", "#f2f5e9"))

\* The first rect below the first arrow_out group, 0 when there is none.
ArrowOutRect(doc) ==
    LET g == find(doc, 0, "g", Attr("id", "arrow_out"))
    IN  IF g = 0 THEN 0 ELSE find(doc, g, "rect", NoAttrs)

\* C4 as claimed: once rule 14 has run, and in the written file, a
\* navigator group that had a rect with fill #f2f5e9 below it has fill pine
\* and that rect has fill overlay, fill-opacity 1.0 and stroke none.
C4_NavigatorRectKept ==
    /\ \A f \in Finished : \A g \in NavigatorGroups(input[f]) :
          LET r == NavigatorRect(input[f], g)
          IN  r # 0 =>
                /\ Value(disk[f][g], "fill") = "#31748f"
                /\ Value(disk[f][r], "fill") = "#26233a"
                /\ Value(disk[f][r], "fill-opacity") = "1.0"
                /\ Value(disk[f][r], "stroke") = "none"
    /\ InPass /\ Past(14) =>
          \A g \in NavigatorGroups(input[Current]) :
             LET r == NavigatorRect(input[Current], g)
             IN  r # 0 =>
                   /\ Value(soup[g], "fill") = "#31748f"
                   /\ Value(soup[r], "fill") = "#26233a"
                   /\ Value(soup[r], "fill-opacity") = "1.0"
                   /\ Value(soup[r], "stroke") = "none"

\* C4 as amended: the same, except that a rect that is also the first rect
\* below the arrow_out group has fill pine once rule 16 has run, and in the
\* written file; its fill-opacity and stroke stay 1.0 and none.
C4_NavigatorRectKeptUnlessArrowOut ==
    /\ \A f \in Finished : \A g \in NavigatorGroups(input[f]) :
          LET r == NavigatorRect(input[f], g)
          IN  r # 0 =>
                /\ Value(disk[f][g], "fill") = "#31748f"
                /\ Value(disk[f][r], "fill") =
                      IF r = ArrowOutRect(input[f]) THEN "#31748f" ELSE "#26233a"
                /\ Value(disk[f][r], "fill-opacity") = "1.0"
                /\ Value(disk[f][r], "stroke") = "none"
    /\ InPass /\ Past(14) =>
          \A g \in NavigatorGroups(input[Current]) :
             LET r == NavigatorRect(input[Current], g)
             IN  r # 0 =>
                   /\ Value(soup[g], "fill") = "#31748f"
                   /\ Value(soup[r], "fill") =
                         IF Past(16) /\ r = ArrowOutRect(input[Current])
                         THEN "#31748f" ELSE "#26233a"
                   /\ Value(soup[r], "fill-opacity") = "1.0"
                   /\ Value(soup[r], "stroke") = "none"

C4_Witness ==
    \E f \in Finished : \E g \in NavigatorGroups(input[f]) :
        LET r == NavigatorRect(input[f], g)
        IN  /\ r # 0
            /\ r = ArrowOutRect(input[f])
            /\ Value(input[f][r], "fill-opacity") = "0.5"
            /\ Value(disk[f][r], "fill") = "#31748f"
            /\ Value(disk[f][r], "fill-opacity") = "1.0"

----------------------------------------------------------------------------
(* C5 *)

HasArrowOut(doc) == find(doc, 0, "g", Attr("id", "arrow_out")) # 0

ArrowOutLacks(doc) ==
    LET g == find(doc, 0, "g", Attr("id", "arrow_out"))
    IN  g # 0 /\ (find(doc, g, "rect", NoAttrs) = 0 \/ find(doc, g, "path", NoAttrs) = 0)

NavigatorLacks(doc) ==
    \E g \in NavigatorGroups(doc) : NavigatorRect(doc, g) = 0

UseLacks(doc) ==
    \E u \in find_all(doc, 0, "use", Attr("fill", "#404040")) :
        find(doc, u, "set", NoAttrs) = 0

\* C5: on a document without a g id="arrow_out", rule 16 changes nothing
\* and hands over to the write step; with the group there but no rect or
\* no path below it, rule 16 raises; rule 14 raises when a navigator group
\* has no rect with fill #f2f5e9 below it; rule 15 raises when a use with
\* fill #404040 has no set below it.
C5_ArrowOutMayBeAbsent ==
    [][pc = "rules" =>
         /\ rule = 16 /\ ~HasArrowOut(soup) => pc' = "write" /\ soup' = soup
         /\ rule = 16 /\ ArrowOutLacks(soup) => pc' = "raise"
         /\ rule = 14 /\ NavigatorLacks(soup) => pc' = "raise"
         /\ rule = 15 /\ UseLacks(soup) => pc' = "raise"]_vars

C5_Witness ==
    /\ pc = "write"
    /\ ~HasArrowOut(soup)
    /\ NavigatorGroups(soup) # {}
    /\ soup # input[Current]

----------------------------------------------------------------------------
(* C6 *)

Below(doc, i, tag, want) ==
    \E g \in Ancestors(doc, i) : g # 0 /\ Matches(doc[g], tag, want)

\* Element i of doc is one a rule selects: by its tag and attribute values
\* or, for the rect, path and set a rule looks up below a group or a use,
\* by its tag and that place.
Selected(doc, i) ==
    LET e == doc[i]
    IN  \/ \E p \in PolygonRules : Painted(e, "polygon", p.fill, p.stroke)
        \/ e.tag = "text" /\ Value(e, "fill") \in {Absent, "grey"}
        \/ Value(e, "fill") \in ArrowColours
        \/ Value(e, "stroke") \in ArrowColours
        \/ Matches(e, "style", Attr("type", "text/css"))
        \/ Matches(e, "g", Attr("id", "navigator"))
        \/ /\ Matches(e, "rect", Attr("fill", "#f2f5e9"))
           /\ Below(doc, i, "g", Attr("id", "navigator"))
        \/ Matches(e, "use", Attr("fill", "#404040"))
        \/ e.tag = "set" /\ Below(doc, i, "use", Attr("fill", "#404040"))
        \/ e.tag \in {"rect", "path"} /\ Below(doc, i, "g", Attr("id", "arrow_out"))

\* before and after are the same document but for the attributes named in
\* may, on selected elements, and the text of text/css style elements.
Framed(before, after, may) ==
    /\ DOMAIN after = DOMAIN before
    /\ \A i \in DOMAIN before :
          /\ after[i].tag = before[i].tag
          /\ after[i].parent = before[i].parent
          /\ \A a \in (DOMAIN before[i].attrs \cup DOMAIN after[i].attrs) \ may :
                Value(after[i], a) = Value(before[i], a)
          /\ after[i].string # before[i].string
                => Matches(before[i], "style", Attr("type", "text/css"))
          /\ ~Selected(before, i) => after[i] = before[i]

----------------------------------------------------------------------------
(* C7 *)

\* C7: when the run has stopped with an error, the file it stopped at is one
\* the pass raises on and is on disk as it was, no file after it in the list
\* has changed, every file before it holds its recolored form, and nothing
\* more happens; and no file the pass raises on is ever got past.
C7_BatchAbort ==
    /\ pc = "raise" =>
          /\ ~recolored(input[Current]).ok
          /\ disk[Current] = input[Current]
          /\ \A k \in (idx + 1)..Len(svg_file_paths) :
                disk[svg_file_paths[k]] = input[svg_file_paths[k]]
          /\ \A k \in 1..(idx - 1) :
                disk[svg_file_paths[k]] = recolored(input[svg_file_paths[k]]).doc
          /\ ~ENABLED Next
    /\ \A f \in Finished : recolored(input[f]).ok

C7_Witness ==
    /\ pc = "raise"
    /\ idx = 2
    /\ NavigatorLacks(input[Current])
    /\ disk[svg_file_paths[1]] # input[svg_file_paths[1]]

----------------------------------------------------------------------------
(* C8 *)

\* A file name the five wildcards stand for, as glob reads them: a star
\* is any beginning that does not make the name start with a dot.
Wanted(n) ==
    \/ n = "graph_legend.svg"
    \/ /\ ~StartsWith(n, ".")
       /\ \/ EndsWith(n, "__dep__incl.svg")
          \/ EndsWith(n, "__inherit__graph.svg")
          \/ EndsWith(n, "__coll__graph.svg")
          \/ EndsWith(n, "_dep.svg")

Occurrences(n) ==
    Cardinality({k \in DOMAIN svg_file_paths : svg_file_paths[k] = n})

\* C8: once the list is built, every file of the directory that a wildcard
\* stands for is in it exactly once and no other file is in it; the loop
\* takes the files one by one, and has taken each once when the run ends.
C8_OncePerFile ==
    /\ pc # "glob" =>
          /\ \A n \in dir : Occurrences(n) = IF Wanted(n) THEN 1 ELSE 0
          /\ \A k \in DOMAIN svg_file_paths : svg_file_paths[k] \in dir
    /\ pc = "exit" =>
          /\ idx = Len(svg_file_paths)
          /\ Finished = {n \in dir : Wanted(n)}

C8_Witness ==
    /\ pc = "exit"
    /\ Len(svg_file_paths) = 2
    /\ "a__dep__incl_dep.svg" \in Finished
    /\ "a__coll__graph.svg" \in Finished

----------------------------------------------------------------------------
(* C9 *)

ArrowTarget ==
    ("#63b8ff" :> "#908caa") @@ ("orange" :> "#e0def4") @@
    ("#9a32cd" :> "#c4a7e7") @@ ("#8b1a1a" :> "#eb6f92") @@
    ("darkgreen" :> "#f6c177")

\* C9 as claimed: in the written file an element whose fill was an arrow
\* colour has the target of that colour as its fill, and likewise for the
\* stroke; the other of the two attributes is as it was unless it was an
\* arrow colour itself; and no fill or stroke is an arrow colour.
C9_ArrowsIndependent ==
    \A f \in Finished : \A i \in DOMAIN input[f] :
        LET a == input[f][i]
            b == disk[f][i]
        IN  /\ Value(a, "fill") \in ArrowColours
                 => Value(b, "fill") = ArrowTarget[Value(a, "fill")]
            /\ Value(a, "stroke") \in ArrowColours
                 => Value(b, "stroke") = ArrowTarget[Value(a, "stroke")]
            /\ Value(a, "fill") \in ArrowColours /\ Value(a, "stroke") \notin ArrowColours
                 => Value(b, "stroke") = Value(a, "stroke")
            /\ Value(a, "stroke") \in ArrowColours /\ Value(a, "fill") \notin ArrowColours
                 => Value(b, "fill") = Value(a, "fill")
            /\ Value(b, "fill") \notin ArrowColours
            /\ Value(b, "stroke") \notin ArrowColours

\* The elements whose fill another rule sets: a text without fill or with
\* fill grey (6, 7), a navigator group and a rect with fill #f2f5e9 below
\* one (14), a use with fill #404040 (15), the rect of arrow_out (16).
FillSetElsewhere(doc, i) ==
    \/ doc[i].tag = "text" /\ Value(doc[i], "fill") \in {Absent, "grey"}
    \/ Matches(doc[i], "g", Attr("id", "navigator"))
    \/ /\ Matches(doc[i], "rect", Attr("fill", "#f2f5e9"))
       /\ Below(doc, i, "g", Attr("id", "navigator"))
    \/ Matches(doc[i], "use", Attr("fill", "#404040"))
    \/ i = ArrowOutRect(doc)

\* The elements whose stroke another rule sets: the rects of 14 and 16.
StrokeSetElsewhere(doc, i) ==
    \/ /\ Matches(doc[i], "rect", Attr("fill", "#f2f5e9"))
       /\ Below(doc, i, "g", Attr("id", "navigator"))
    \/ i = ArrowOutRect(doc)

\* C9 as amended: the same for every element whose fill, or stroke, no
\* other rule sets.
C9_ArrowsIndependentWhereNoOtherRule ==
    \A f \in Finished : \A i \in DOMAIN input[f] :
        LET a == input[f][i]
            b == disk[f][i]
        IN  /\ ~FillSetElsewhere(input[f], i) =>
                 /\ Value(a, "fill") \in ArrowColours
                      => Value(b, "fill") = ArrowTarget[Value(a, "fill")]
                 /\ Value(a, "stroke") \in ArrowColours /\ Value(a, "fill") \notin ArrowColours
                      => Value(b, "fill") = Value(a, "fill")
            /\ ~StrokeSetElsewhere(input[f], i) =>
                 /\ Value(a, "stroke") \in ArrowColours
                      => Value(b, "stroke") = ArrowTarget[Value(a, "stroke")]
                 /\ Value(a, "fill") \in ArrowColours /\ Value(a, "stroke") \notin ArrowColours
                      => Value(b, "stroke") = Value(a, "stroke")
            /\ Value(b, "fill") \notin ArrowColours
            /\ Value(b, "stroke") \notin ArrowColours

C9_Witness ==
    \E f \in Finished : \E i \in DOMAIN input[f] :
        /\ Painted(input[f][i], "path", "#9a32cd", "darkgreen")
        /\ Painted(disk[f][i], "path", "#c4a7e7", "#f6c177")

----------------------------------------------------------------------------
(* C10 *)

\* Rule j, then rule k unless j raised.
Then(j, k, doc) ==
    LET r == ApplyRule(j, doc)
    IN  IF r.ok THEN ApplyRule(k, r.doc) ELSE r

\* The pass with its rules taken in the given order.
RECURSIVE RunInOrder(_, _)
RunInOrder(order, r) ==
    IF order = <<>> \/ ~r.ok THEN r
    ELSE RunInOrder(Tail(order), ApplyRule(Head(order), r.doc))

Swapped(j, k) ==
    [i \in 1..NumRules |-> IF i = j THEN k ELSE IF i = k THEN j ELSE i]

\* Two runs end alike: both raise, and nothing is written, or both reach
\* the write with the same document.
SameResult(r1, r2) == r1.ok = r2.ok /\ (r1.ok => r1.doc = r2.doc)

\* The document has just been parsed.
Parsed == pc = "rules" /\ rule = 1

\* No value a rule writes is a value a selector matches on, and the pass
\* writes no other values.
WritesNoKey ==
    /\ WrittenValues \cap MatchKeys = {}
    /\ InPass =>
          \A i \in DOMAIN soup : \A a \in DOMAIN soup[i].attrs :
             Value(soup[i], a) # Value(input[Current][i], a)
                => Value(soup[i], a) \in WrittenValues

\* C10 as claimed: no written value is a match key, and the pass gives the
\* same result with any two of its rules taken in each other's place.
C10_AnyOrder ==
    /\ WritesNoKey
    /\ Parsed =>
          \A j, k \in 1..NumRules :
             j < k => SameResult(RunInOrder(Swapped(j, k), Ok(soup)), recolored(soup))

\* Rule j then rule k ends as rule k then rule j does, on every pair of the
\* given set, from the document just parsed.
Commute(pairs) ==
    LET first == [j \in 1..NumRules |-> ApplyRule(j, soup)]
        then(j, k) == IF first[j].ok THEN ApplyRule(k, first[j].doc) ELSE first[j]
    IN  \A p \in pairs : SameResult(then(p[1], p[2]), then(p[2], p[1]))

\* C10 as amended: no written value is a match key, and any two rules
\* other than 14 and 16 give the same result in either order.
C10_RulesCommuteBut14And16 ==
    /\ WritesNoKey
    /\ Parsed =>
          Commute({p \in (1..NumRules) \X (1..NumRules) :
                      p[1] < p[2] /\ p # <<14, 16>>})

C10_Witness ==
    /\ Parsed
    /\ ProtectedInheritance(soup).doc # soup
    /\ ArrowOut(soup).doc # soup
    /\ Then(12, 16, soup).ok
    /\ Then(12, 16, soup).doc # ArrowOut(soup).doc
    /\ SameResult(Then(12, 16, soup), Then(16, 12, soup))

====
